---- MODULE Spec2Model ----
(***************************************************************************)
(* Model of the C++ PID controller of billtubbs/pid-ref (cpp_pid): the ZOH *)
(* discretizer zoh_Fy, the MeasurementFilter, the anti_windup rule and the *)
(* PIDController in incremental (velocity) form.                           *)
(*                                                                         *)
(* State.  pid is the PIDController object, last the call that has just    *)
(* returned (its arguments, its result, the controller before the call and *)
(* at the assignment of u).  Step and Reset are whole calls; Continue is    *)
(* the caller going on to its next call.                                   *)
(*                                                                         *)
(* Numbers.  The code computes in IEEE doubles; the model computes in      *)
(* fixed point: the integer n stands for the real n / Scale.  Addition,    *)
(* subtraction and negation are exact; a product or quotient is rounded to *)
(* the nearest representable value, ties away from zero, so that, as in    *)
(* IEEE arithmetic, rounding commutes with negation.                       *)
(***************************************************************************)
EXTENDS Integers, Sequences, FiniteSets, TLC

\* Fixed-point resolution: the integer n stands for n / Scale.
Scale == 10000

\* Number of step() calls explored on one controller instance.
MaxTicks == 2

\* Number of terms of the series that evaluates exp().
ExpTerms == 8

Abs(x) == IF x < 0 THEN -x ELSE x

Sgn(x) == IF x < 0 THEN -1 ELSE IF x > 0 THEN 1 ELSE 0

\* Quotient of two integers, rounded to nearest, ties away from zero (d # 0).
RoundDiv(n, d) == Sgn(n) * Sgn(d) * ((2 * Abs(n) + Abs(d)) \div (2 * Abs(d)))

\* The double product a * b.
Mul(a, b) == RoundDiv(a * b, Scale)

\* The double quotient a / b, b # 0.
Div(a, b) == RoundDiv(a * Scale, b)

\* std::min and std::max of <algorithm>: min(a, b) is (b < a) ? b : a,
\* max(a, b) is (a < b) ? b : a.
Min(a, b) == IF b < a THEN b ELSE a

Max(a, b) == IF a < b THEN b ELSE a

\* exp(x) of <cmath>, evaluated by its power series in the model's arithmetic:
\* term k is term (k-1) * x / k.
RECURSIVE ExpSeries(_, _, _, _)
ExpSeries(x, k, term, acc) ==
    IF k > ExpTerms THEN acc
    ELSE LET t == RoundDiv(Mul(term, x), k)
         IN  ExpSeries(x, k + 1, t, acc + t)

Exp(x) == ExpSeries(x, 1, Scale, Scale)

----------------------------------------------------------------------------
(* zoh_pid.cpp *)

\* Mutant of zoh_Fy: b1 lacks the term h3.
zoh_Fy_ShortB1(TfTs, Tx) ==
    LET h1 == Div(Tx, TfTs)
        h2 == Exp(-h1)
        h3 == Mul(h1, h2)
        h4 == Div(h3, TfTs)
    IN  [a11 |-> h2 + h3,
         a12 |-> h2,
         a21 |-> -h4,
         a22 |-> h2 - h3,
         b1  |-> Scale - h2,
         b2  |-> h4]

\* FilterParams zoh_Fy(double TfTs, double Tx)
zoh_Fy(TfTs, Tx) ==
    LET h1 == Div(Tx, TfTs)
        h2 == Exp(-h1)
        h3 == Mul(h1, h2)
        h4 == Div(h3, TfTs)
    IN  [a11 |-> h2 + h3,
         a12 |-> h2,
         a21 |-> -h4,
         a22 |-> h2 - h3,
         b1  |-> Scale - h2 - h3,
         b2  |-> h4]

----------------------------------------------------------------------------
(* measurement_filter.cpp *)

\* std::numeric_limits<double>::quiet_NaN(), the "unset" value of Tx_old_.
\* No input of the model takes this value; NaN compares unequal to everything.
NaN == -2147483647

\* The double comparison a != b.
Neq(a, b) == a = NaN \/ b = NaN \/ a # b

\* MeasurementFilter::MeasurementFilter(double TfTs)
NewFilter(TfTs) ==
    [TfTs |-> TfTs,
     a11 |-> 0, a12 |-> 0, a21 |-> 0, a22 |-> 0, b1 |-> 0, b2 |-> 0,
     yf |-> 0, dyf |-> 0, Tx_old |-> NaN, initialized |-> FALSE]

\* Mutant of NeedsDiscretization: the change of Tx is not looked at.
NeedsDiscretization_OnlyOnce(f, Tx) == ~f.initialized

\* if (!initialized_ || Tx != Tx_old_)
NeedsDiscretization(f, Tx) == ~f.initialized \/ Neq(Tx, f.Tx_old)

\* The re-discretization branch of MeasurementFilter::operator().
Rediscretize(f, Tx) ==
    IF NeedsDiscretization(f, Tx)
    THEN LET params == zoh_Fy(f.TfTs, Tx)
         IN  [f EXCEPT !.a11 = params.a11, !.a12 = params.a12,
                       !.a21 = params.a21, !.a22 = params.a22,
                       !.b1 = params.b1, !.b2 = params.b2,
                       !.initialized = TRUE]
    ELSE f

\* Mutant of StateUpdate: the dyf equation reads the yf just assigned.
StateUpdate_Sequential(g, y, Tx) ==
    LET yf_new == Mul(g.a11, g.yf) + Mul(g.a12, g.dyf) + Mul(g.b1, y)
    IN  [g EXCEPT !.Tx_old = Tx,
                  !.yf  = yf_new,
                  !.dyf = Mul(g.a21, yf_new) + Mul(g.a22, g.dyf) + Mul(g.b2, y)]

\* The state update of MeasurementFilter::operator(): both equations read the
\* pre-update yf (yf_prev) and the pre-update dyf (dyf_ is assigned last).
StateUpdate(g, y, Tx) ==
    LET yf_prev == g.yf
    IN  [g EXCEPT !.Tx_old = Tx,
                  !.yf  = Mul(g.a11, yf_prev) + Mul(g.a12, g.dyf) + Mul(g.b1, y),
                  !.dyf = Mul(g.a21, yf_prev) + Mul(g.a22, g.dyf) + Mul(g.b2, y)]

\* FilterOutput MeasurementFilter::operator()(double y, double Tx): the filter
\* after the call; the returned FilterOutput is its (yf, dyf).
FilterApply(f, y, Tx) == StateUpdate(Rediscretize(f, Tx), y, Tx)

\* Mutant of FilterReset: the cache of coefficients stays marked as valid.
FilterReset_KeepsCache(f) == [f EXCEPT !.yf = 0, !.dyf = 0]

\* void MeasurementFilter::reset()
FilterReset(f) ==
    [f EXCEPT !.yf = 0, !.dyf = 0, !.Tx_old = NaN, !.initialized = FALSE]

----------------------------------------------------------------------------
(* anti_windup.h, anti_windup.cpp *)

\* enum class WindupMode { NONE, UPPER, LOWER, BOTH }: the enumerators'
\* values.  The underlying type is int, so a WindupMode object can hold any
\* int (static_cast<WindupMode>(4)).
NONE == 0

UPPER == 1

LOWER == 2

BOTH == 3

\* Mutant of anti_windup: the second test forgets BOTH.
anti_windup_UpperOnly(Dui, windup) ==
    LET d1 == IF windup = BOTH \/ windup = LOWER THEN Max(Dui, 0) ELSE Dui
    IN  IF windup = UPPER THEN Min(d1, 0) ELSE d1

\* double anti_windup(double Dui, WindupMode windup)
anti_windup(Dui, windup) ==
    LET d1 == IF windup = BOTH \/ windup = LOWER THEN Max(Dui, 0) ELSE Dui
    IN  IF windup = BOTH \/ windup = UPPER THEN Min(d1, 0) ELSE d1

----------------------------------------------------------------------------
(* pid.h, pid.cpp *)

\* PIDController::PIDController(kp, ki, kd, TfTs, umin, umax, u0, b): the
\* member initializer list.  The constructor has no body and checks nothing.
NewController(kp, ki, kd, TfTs, umin, umax, u0, b) ==
    [kp |-> kp, ki |-> ki, kd |-> kd,
     umin |-> umin, umax |-> umax, u0 |-> u0, b |-> b,
     u_old |-> 0, up_old |-> 0, ud_old |-> 0, uff_old |-> 0,
     filter |-> NewFilter(TfTs)]

\* Mutant of ResetIfNoIntegral: the weight b_ is left as configured.
ResetIfNoIntegral_KeepWeight(c) ==
    IF c.ki = 0
    THEN [c EXCEPT !.u_old = c.u0, !.up_old = 0, !.ud_old = 0, !.uff_old = 0]
    ELSE c

\* Mutant of ResetIfNoIntegral: u_old_ is left as the last tick set it.
ResetIfNoIntegral_KeepsOutput(c) ==
    IF c.ki = 0
    THEN [c EXCEPT !.up_old = 0, !.ud_old = 0, !.uff_old = 0, !.b = Scale]
    ELSE c

\* "Reset state if using P or PD control (ki == 0)"
ResetIfNoIntegral(c) ==
    IF c.ki = 0
    THEN [c EXCEPT !.u_old = c.u0, !.up_old = 0, !.ud_old = 0,
                   !.uff_old = 0, !.b = Scale]
    ELSE c

\* Mutant of TrackOverride: only u_old_ is overridden.
TrackOverride_KeepTerms(c, track, utrack) ==
    IF track THEN [c EXCEPT !.u_old = utrack] ELSE c

\* "Tracking mode for bumpless transfer"
TrackOverride(c, track, utrack) ==
    IF track
    THEN [c EXCEPT !.u_old = utrack, !.up_old = 0, !.ud_old = 0, !.uff_old = 0]
    ELSE c

\* The integral increment before anti-windup: ki_ * (r - yf) * Tx.
RawDui(c, r, yf, Tx) == Mul(Mul(c.ki, r - yf), Tx)

\* Dui after Dui = anti_windup(Dui, windup).
IntegralIncrement(c, r, yf, Tx, windup) ==
    anti_windup(RawDui(c, r, yf, Tx), windup)

\* Mutant of AutoSignal: the derivative increment is not divided by Tx.
AutoSignal_DerivativeNotDivided(c, r, uff, Tx, windup, yf, dyf) ==
    LET Dup  == Mul(c.kp, Mul(c.b, r) - yf) - c.up_old
        Dui  == IntegralIncrement(c, r, yf, Tx, windup)
        Dud  == Mul(-c.kd, dyf) - c.ud_old
        Duff == uff - c.uff_old
        Du   == Dup + Dui + Dud + Duff
    IN  c.u_old + Du

\* "Control signal increments" and "Add control signal increment": the
\* unsaturated u of an automatic tick.
AutoSignal(c, r, uff, Tx, windup, yf, dyf) ==
    LET Dup  == Mul(c.kp, Mul(c.b, r) - yf) - c.up_old
        Dui  == IntegralIncrement(c, r, yf, Tx, windup)
        Dud  == Div(Mul(-c.kd, dyf) - c.ud_old, Tx)
        Duff == uff - c.uff_old
        Du   == Dup + Dui + Dud + Duff
    IN  c.u_old + Du

\* Mutant of Saturate: the lower limit is not applied.
Saturate_NoLower(u, umin, umax) == Min(u, umax)

\* "Saturate control signal": std::max(std::min(u, umax_), umin_)
Saturate(u, umin, umax) == Max(Min(u, umax), umin)

\* Mutant of UpdateOld: the feedforward signal is not stored.
UpdateOld_KeepsFeedforward(c, u, r, uff, yf, dyf) ==
    [c EXCEPT !.u_old = u,
              !.up_old = Mul(c.kp, Mul(c.b, r) - yf),
              !.ud_old = Mul(-c.kd, dyf)]

\* "Update old signal states"
UpdateOld(c, u, r, uff, yf, dyf) ==
    [c EXCEPT !.u_old = u,
              !.up_old = Mul(c.kp, Mul(c.b, r) - yf),
              !.ud_old = Mul(-c.kd, dyf),
              !.uff_old = uff]

\* Mutant of BeforeSignal: the ki == 0 reset is skipped in tracking mode.
BeforeSignal_TrackSkipsReset(c, in) ==
    LET c1 == [c EXCEPT !.filter = FilterApply(c.filter, in.y, in.Tx)]
    IN  IF in.auto
        THEN IF in.track
             THEN TrackOverride(c1, in.track, in.utrack)
             ELSE ResetIfNoIntegral(c1)
        ELSE c1

\* The controller at the point where u is assigned: after the filter update
\* and, on an automatic tick, after the ki == 0 and track branches.
BeforeSignal(c, in) ==
    LET c1 == [c EXCEPT !.filter = FilterApply(c.filter, in.y, in.Tx)]
    IN  IF in.auto
        THEN TrackOverride(ResetIfNoIntegral(c1), in.track, in.utrack)
        ELSE c1

\* Mutant of Signal: a manual tick in tracking mode follows utrack.
Signal_ManualTracks(m, in) ==
    IF in.auto
    THEN AutoSignal(m, in.r, in.uff, in.Tx, in.windup, m.filter.yf, m.filter.dyf)
    ELSE IF in.track THEN in.utrack ELSE in.uman

\* The unsaturated u: the automatic sum or the manual control signal.
Signal(m, in) ==
    IF in.auto
    THEN AutoSignal(m, in.r, in.uff, in.Tx, in.windup, m.filter.yf, m.filter.dyf)
    ELSE in.uman

\* Mutant of PIDStep: u_old_ is given the sum before its saturation.
PIDStep_StoresUnsaturated(c, in) ==
    LET m == BeforeSignal(c, in)
        u == Saturate(Signal(m, in), m.umin, m.umax)
    IN  [pid |-> UpdateOld(m, Signal(m, in), in.r, in.uff,
                           m.filter.yf, m.filter.dyf),
         u   |-> u,
         mid |-> m,
         Dui |-> IF in.auto
                 THEN IntegralIncrement(m, in.r, m.filter.yf, in.Tx, in.windup)
                 ELSE 0]

\* Mutant of PIDStep: a manual tick stores the output only.
PIDStep_ManualStoresOutputOnly(c, in) ==
    LET m == BeforeSignal(c, in)
        u == Saturate(Signal(m, in), m.umin, m.umax)
    IN  [pid |-> IF in.auto
                 THEN UpdateOld(m, u, in.r, in.uff, m.filter.yf, m.filter.dyf)
                 ELSE [m EXCEPT !.u_old = u],
         u   |-> u,
         mid |-> m,
         Dui |-> IF in.auto
                 THEN IntegralIncrement(m, in.r, m.filter.yf, in.Tx, in.windup)
                 ELSE 0]

\* double PIDController::operator()(r, y, uff, uman, utrack, Tx, track,
\* auto_mode, windup): the controller after the call (pid), the returned
\* value (u), the controller as it was when u was assigned (mid) and the
\* local Dui of an automatic tick (a manual tick computes none: 0).
PIDStep(c, in) ==
    LET m == BeforeSignal(c, in)
        u == Saturate(Signal(m, in), m.umin, m.umax)
    IN  [pid |-> UpdateOld(m, u, in.r, in.uff, m.filter.yf, m.filter.dyf),
         u   |-> u,
         mid |-> m,
         Dui |-> IF in.auto
                 THEN IntegralIncrement(m, in.r, m.filter.yf, in.Tx, in.windup)
                 ELSE 0]

\* Mutant of PIDReset: u0_ is zeroed in place of u_old_.
PIDReset_ZeroBias(c) ==
    [c EXCEPT !.u0 = 0, !.up_old = 0, !.ud_old = 0, !.uff_old = 0,
              !.filter = FilterReset(c.filter)]

\* Mutant of PIDReset: u_old_ is left as the last tick set it.
PIDReset_KeepsOutput(c) ==
    [c EXCEPT !.up_old = 0, !.ud_old = 0, !.uff_old = 0,
              !.filter = FilterReset(c.filter)]

\* Mutant of PIDReset: the filter is not reset.
PIDReset_KeepsFilter(c) ==
    [c EXCEPT !.u_old = 0, !.up_old = 0, !.ud_old = 0, !.uff_old = 0]

\* void PIDController::reset()
PIDReset(c) ==
    [c EXCEPT !.u_old = 0, !.up_old = 0, !.ud_old = 0, !.uff_old = 0,
              !.filter = FilterReset(c.filter)]

----------------------------------------------------------------------------
(* Inputs explored *)

Half == Scale \div 2

\* Constructor arguments.
Gains_kp == {2 * Scale}

Gains_ki == {0, Half}

Gains_kd == {Scale}

Ratios_TfTs == {10 * Scale}

\* (umin, umax); the constructor also accepts umin > umax.
Limits == {<<-Scale, Scale>>, <<Scale, -Scale>>}

Biases_u0 == {Scale}

Weights_b == {Half}

\* Arguments of a call of operator().
In_r == {-Scale, Scale}

In_y == {Scale}

In_uff == {0, Scale}

In_uman == {0, 2 * Scale}

In_utrack == {-2 * Scale, Scale}

\* Tx: the code accepts any double.  Tx = 0 is left out: the division by Tx
\* then yields an infinity or a NaN, which the fixed-point numbers lack.
In_Tx == {-Scale, Scale, 2 * Scale}

\* windup: the four enumerators and one value outside the enumeration.
In_windup == {NONE, UPPER, LOWER, BOTH, 4}

Inputs ==
    [r : In_r, y : In_y, uff : In_uff, uman : In_uman, utrack : In_utrack,
     Tx : In_Tx, track : BOOLEAN, auto : BOOLEAN, windup : In_windup]

\* The default arguments of operator() (pid.h), used before the first call.
NoCall ==
    [r |-> 0, y |-> 0, uff |-> 0, uman |-> 0, utrack |-> 0,
     Tx |-> Scale, track |-> FALSE, auto |-> TRUE, windup |-> NONE]

----------------------------------------------------------------------------
(* State machine: one controller instance and its caller *)

VARIABLES
    args,   \* the arguments the controller was constructed with
    pid,    \* the PIDController object (its filter_ member included)
    last,   \* the call that has just returned: operation, arguments, result
    ticks,  \* number of operator() calls made so far
    other,  \* a second controller instance, where a caller drives two
    mf      \* a MeasurementFilter object that a caller drives directly

vars == <<args, pid, last, ticks, other, mf>>

\* The caller has constructed one controller only.
Single == <<>>

\* The caller has constructed no filter of its own.
NoFilter == <<>>

\* No call has just returned: the caller is between two calls.
Idle ==
    [op |-> "idle", in |-> NoCall, u |-> 0, Dui |-> 0,
     mid |-> <<>>, pre |-> <<>>]

Init ==
    /\ \E kp \in Gains_kp, ki \in Gains_ki, kd \in Gains_kd,
          TfTs \in Ratios_TfTs, lim \in Limits, u0 \in Biases_u0,
          b \in Weights_b :
          /\ args = [kp |-> kp, ki |-> ki, kd |-> kd, TfTs |-> TfTs,
                     umin |-> lim[1], umax |-> lim[2], u0 |-> u0, b |-> b]
          /\ pid = NewController(kp, ki, kd, TfTs, lim[1], lim[2], u0, b)
    /\ last = Idle
    /\ ticks = 0
    /\ other = Single
    /\ mf = NoFilter

\* u = controller(r, y, uff, uman, utrack, Tx, track, auto_mode, windup):
\* the whole call.  last keeps its arguments (in), the value it returned (u),
\* the controller before the call (pre) and at the assignment of u (mid).
Step ==
    /\ last.op = "idle"
    /\ ticks < MaxTicks
    /\ \E in \in Inputs :
          \E res \in {PIDStep(pid, in)} :
              /\ pid' = res.pid
              /\ last' = [op |-> "step", in |-> in, u |-> res.u,
                          Dui |-> res.Dui, mid |-> res.mid, pre |-> pid]
    /\ ticks' = ticks + 1
    /\ UNCHANGED <<args, other, mf>>

\* controller.reset(): the whole call.
Reset ==
    /\ last.op = "idle"
    /\ ticks > 0
    /\ pid' = PIDReset(pid)
    /\ last' = [Idle EXCEPT !.op = "reset", !.pre = pid]
    /\ UNCHANGED <<args, ticks, other, mf>>

\* The caller goes on to its next call: the arguments and the result of the
\* call that returned are its locals and are dropped.
Continue ==
    /\ last.op # "idle"
    /\ last' = Idle
    /\ UNCHANGED <<args, pid, ticks, other, mf>>

Next == Step \/ Reset \/ Continue

Spec == Init /\ [][Next]_vars

----------------------------------------------------------------------------
(* State machine: a caller that drives two controllers with the same calls. *)
(* The two are constructed with ki == 0 and the same arguments but for the  *)
(* setpoint weight b.                                                       *)

\* The setpoint weights given to the second controller.
Weights_other == {0, Scale}

InitWeights ==
    /\ \E kp \in Gains_kp, kd \in Gains_kd, TfTs \in Ratios_TfTs,
          lim \in Limits, u0 \in Biases_u0, b \in Weights_b,
          b2 \in Weights_other \ Weights_b :
          /\ args = [kp |-> kp, ki |-> 0, kd |-> kd, TfTs |-> TfTs,
                     umin |-> lim[1], umax |-> lim[2], u0 |-> u0, b |-> b]
          /\ pid = NewController(kp, 0, kd, TfTs, lim[1], lim[2], u0, b)
          /\ other = [args |-> [args EXCEPT !.b = b2],
                      pid  |-> NewController(kp, 0, kd, TfTs, lim[1], lim[2],
                                             u0, b2),
                      u |-> 0, pre |-> <<>>]
    /\ last = Idle
    /\ ticks = 0
    /\ mf = NoFilter

\* The same call of operator() on both controllers.
StepBoth ==
    /\ last.op = "idle"
    /\ ticks < MaxTicks
    /\ \E in \in Inputs :
          \E res \in {PIDStep(pid, in)}, res2 \in {PIDStep(other.pid, in)} :
              /\ pid' = res.pid
              /\ last' = [op |-> "step", in |-> in, u |-> res.u,
                          Dui |-> res.Dui, mid |-> res.mid, pre |-> pid]
              /\ other' = [other EXCEPT !.pid = res2.pid, !.u = res2.u,
                                        !.pre = other.pid]
    /\ ticks' = ticks + 1
    /\ UNCHANGED <<args, mf>>

\* reset() on both controllers.
ResetBoth ==
    /\ last.op = "idle"
    /\ ticks > 0
    /\ pid' = PIDReset(pid)
    /\ last' = [Idle EXCEPT !.op = "reset", !.pre = pid]
    /\ other' = [other EXCEPT !.pid = PIDReset(other.pid), !.u = 0,
                              !.pre = other.pid]
    /\ UNCHANGED <<args, ticks, mf>>

\* The caller goes on to its next call.
ContinueBoth ==
    /\ last.op # "idle"
    /\ last' = Idle
    /\ other' = [other EXCEPT !.u = 0, !.pre = <<>>]
    /\ UNCHANGED <<args, pid, ticks, mf>>

NextWeights == StepBoth \/ ResetBoth \/ ContinueBoth

SpecWeights == InitWeights /\ [][NextWeights]_vars

----------------------------------------------------------------------------
(* State machine: a caller that drives one MeasurementFilter directly *)

\* The largest number of calls of MeasurementFilter::operator() explored.
MaxCalls == 3

\* Constructor argument.
Filter_TfTs == {5 * Scale, 10 * Scale}

\* Arguments of a call of MeasurementFilter::operator(); the code accepts any
\* Tx but 0 without an infinity or a NaN.
Filter_y == {-Scale, Scale, 2 * Scale}

Filter_Tx == {-Scale, Half, Scale, 2 * Scale}

FilterInputs == [y : Filter_y, Tx : Filter_Tx]

\* The caller has constructed no controller.
NoController == <<>>

\* No call on the filter has just returned.
FilterIdle ==
    [op |-> "idle", in |-> <<>>, out |-> <<>>, zoh |-> FALSE, pre |-> <<>>]

InitFilter ==
    /\ \E TfTs \in Filter_TfTs :
          /\ args = [TfTs |-> TfTs]
          /\ mf = NewFilter(TfTs)
    /\ pid = NoController
    /\ last = FilterIdle
    /\ ticks = 0
    /\ other = Single

\* out = filter(y, Tx): the whole call.  last keeps its arguments (in), the
\* FilterOutput it returned (out), the filter before the call (pre) and
\* whether the call went through the branch that calls zoh_Fy (zoh).
Apply ==
    /\ last.op = "idle"
    /\ ticks < MaxCalls
    /\ \E in \in FilterInputs :
          \E f \in {FilterApply(mf, in.y, in.Tx)} :
              /\ mf' = f
              /\ last' = [op |-> "apply", in |-> in,
                          out |-> [yf |-> f.yf, dyf |-> f.dyf],
                          zoh |-> NeedsDiscretization(mf, in.Tx),
                          pre |-> mf]
    /\ ticks' = ticks + 1
    /\ UNCHANGED <<args, pid, other>>

\* filter.reset(): the whole call.
ResetFilter ==
    /\ last.op = "idle"
    /\ ticks > 0
    /\ mf' = FilterReset(mf)
    /\ last' = [FilterIdle EXCEPT !.op = "reset", !.pre = mf]
    /\ UNCHANGED <<args, pid, ticks, other>>

\* The caller goes on to its next call.
ContinueFilter ==
    /\ last.op # "idle"
    /\ last' = FilterIdle
    /\ UNCHANGED <<args, pid, ticks, other, mf>>

NextFilter == Apply \/ ResetFilter \/ ContinueFilter

SpecFilter == InitFilter /\ [][NextFilter]_vars

----------------------------------------------------------------------------
(* The reference algorithm that the replay data (r, y, uff, uman, utrack,   *)
(* Tx, auto, track) -> u_expected of test_pid_with_io_data come from        *)

\* clamp(u, lo, hi) for lo <= hi.
RefClamp(u, lo, hi) == IF u < lo THEN lo ELSE IF u > hi THEN hi ELSE u

\* Discretizer: (TfTs, Tx) -> (a11, a12, a21, a22, b1, b2).
RefDiscretizer(TfTs, Tx) ==
    LET h1 == Div(Tx, TfTs)
        h2 == Exp(-h1)
        h3 == Mul(h1, h2)
        h4 == Div(h3, TfTs)
    IN  <<h2 + h3, h2, -h4, h2 - h3, Scale - h2 - h3, h4>>

\* ControllerState and FilterState at construction, with the configuration.
RefNew(cfg) ==
    [cfg |-> cfg, b |-> cfg.b,
     u_old |-> 0, up_old |-> 0, ud_old |-> 0, uff_old |-> 0,
     yf |-> 0, dyf |-> 0, Tx_old |-> NaN, initialized |-> FALSE,
     coef |-> <<0, 0, 0, 0, 0, 0>>]

\* Measurement Filter, apply(y, Tx), step 1.
RefDerive(s, Tx) ==
    IF ~s.initialized \/ s.Tx_old = NaN \/ s.Tx_old # Tx
    THEN [s EXCEPT !.coef = RefDiscretizer(s.cfg.TfTs, Tx),
                   !.initialized = TRUE, !.Tx_old = Tx]
    ELSE s

\* Measurement Filter, apply(y, Tx), steps 2 and 3, on the state d that
\* step 1 left: yf_prev and dyf_prev are the pre-update state, y the
\* measurement.
RefUpdate(d, yf_prev, dyf_prev, y) ==
    [d EXCEPT !.yf  = Mul(d.coef[1], yf_prev) + Mul(d.coef[2], dyf_prev)
                          + Mul(d.coef[5], y),
              !.dyf = Mul(d.coef[3], yf_prev) + Mul(d.coef[4], dyf_prev)
                          + Mul(d.coef[6], y)]

\* Measurement Filter, apply(y, Tx).
RefFilter(s, y, Tx) == RefUpdate(RefDerive(s, Tx), s.yf, s.dyf, y)

\* Anti-Windup Policy, clamp(Dui, windup).
RefAntiWindup(Dui, windup) ==
    LET lower == IF windup \in {LOWER, BOTH} /\ Dui < 0 THEN 0 ELSE Dui
    IN  IF windup \in {UPPER, BOTH} /\ lower > 0 THEN 0 ELSE lower

\* PID Controller, step(...), step 2a.
RefNoIntegral(s) ==
    IF s.cfg.ki = 0
    THEN [s EXCEPT !.u_old = s.cfg.u0, !.up_old = 0, !.ud_old = 0,
                   !.uff_old = 0, !.b = Scale]
    ELSE s

\* PID Controller, step(...), step 2b.
RefTrack(s, row) ==
    IF row.track
    THEN [s EXCEPT !.u_old = row.utrack, !.up_old = 0, !.ud_old = 0,
                   !.uff_old = 0]
    ELSE s

\* PID Controller, step(...), steps 2a and 2b, taken if auto is true.
RefOverrides(s, row) ==
    IF row.auto THEN RefTrack(RefNoIntegral(s), row) ELSE s

\* The proportional and the derivative term of a tick.
RefP(c, row) == Mul(c.cfg.kp, Mul(c.b, row.r) - c.yf)

RefD(c) == Mul(-c.cfg.kd, c.dyf)

\* PID Controller, step(...), steps 2c and 3: u before saturation.
RefSignal(c, row) ==
    IF row.auto
    THEN LET Dup  == RefP(c, row) - c.up_old
             Dui  == RefAntiWindup(
                         Mul(Mul(c.cfg.ki, row.r - c.yf), row.Tx), row.windup)
             Dud  == Div(RefD(c) - c.ud_old, row.Tx)
             Duff == row.uff - c.uff_old
         IN  c.u_old + (Dup + Dui + Dud + Duff)
    ELSE row.uman

\* PID Controller, step(...), steps 5 and 6.
RefReturn(c, row, u) ==
    [state |-> [c EXCEPT !.u_old = u, !.up_old = RefP(c, row),
                         !.ud_old = RefD(c), !.uff_old = row.uff],
     u |-> u]

\* PID Controller, step(...), steps 2 to 6 on the state c that step 1 left.
RefAfterFilter(c, row) ==
    RefReturn(c, row, RefClamp(RefSignal(c, row), c.cfg.umin, c.cfg.umax))

\* PID Controller, step(...): the state after the tick and the u returned.
RefStep(s, row) ==
    RefAfterFilter(RefOverrides(RefFilter(s, row.y, row.Tx), row), row)

----------------------------------------------------------------------------
(* State machine: test_pid_with_io_data, a fresh controller given the rows  *)
(* of the replay data one by one, beside the reference algorithm            *)

\* The constructor's defaults for u0 and b.
Default_u0 == 0

Default_b == Scale

\* The measurements of the rows.
Rows_y == {0, Scale}

\* The rows: Tx > 0, and no windup argument (the default, NONE).
Rows ==
    [r : In_r, y : Rows_y, uff : In_uff, uman : In_uman, utrack : In_utrack,
     Tx : {t \in In_Tx : t > 0}, track : BOOLEAN, auto : BOOLEAN,
     windup : {NONE}]

InitReplay ==
    /\ \E kp \in Gains_kp, ki \in Gains_ki, kd \in Gains_kd,
          TfTs \in Ratios_TfTs, lim \in {l \in Limits : l[1] <= l[2]} :
          /\ args = [kp |-> kp, ki |-> ki, kd |-> kd, TfTs |-> TfTs,
                     umin |-> lim[1], umax |-> lim[2],
                     u0 |-> Default_u0, b |-> Default_b]
          /\ pid = NewController(kp, ki, kd, TfTs, lim[1], lim[2],
                                 Default_u0, Default_b)
    /\ other = [ref |-> RefNew(args), u |-> 0]
    /\ last = Idle
    /\ ticks = 0
    /\ mf = NoFilter

\* One row: the call of operator() and the reference algorithm's tick.
StepRow ==
    /\ last.op = "idle"
    /\ ticks < MaxTicks
    /\ \E in \in Rows :
          \E res \in {PIDStep(pid, in)}, exp \in {RefStep(other.ref, in)} :
              /\ pid' = res.pid
              /\ last' = [op |-> "step", in |-> in, u |-> res.u,
                          Dui |-> res.Dui, mid |-> res.mid, pre |-> pid]
              /\ other' = [ref |-> exp.state, u |-> exp.u]
    /\ ticks' = ticks + 1
    /\ UNCHANGED <<args, mf>>

\* The loop goes on to the next row.
ContinueRow ==
    /\ last.op # "idle"
    /\ last' = Idle
    /\ other' = [other EXCEPT !.u = 0]
    /\ UNCHANGED <<args, pid, ticks, mf>>

NextReplay == StepRow \/ ContinueRow

SpecReplay == InitReplay /\ [][NextReplay]_vars

----------------------------------------------------------------------------
(* State machine: one controller with integral action and a caller that     *)
(* remembers the call before the one that has just returned                 *)

\* Arguments of a call: a measurement of 0 among them, a valid Tx, a valid
\* windup.
Transfer_y == {0, Scale}

Transfer_utrack == {Scale}

TransferInputs ==
    [r : In_r, y : Transfer_y, uff : In_uff, uman : In_uman,
     utrack : Transfer_utrack, Tx : {t \in In_Tx : t > 0},
     track : BOOLEAN, auto : BOOLEAN, windup : {NONE, UPPER, LOWER, BOTH}]

\* What the caller remembers of a call: of operator(), the mode, r, uff, the
\* u returned and the filter outputs of that tick.
Remembered(l, c) ==
    IF l.op = "step"
    THEN [op |-> "step", auto |-> l.in.auto, r |-> l.in.r, uff |-> l.in.uff,
          u |-> l.u, yf |-> c.filter.yf, dyf |-> c.filter.dyf]
    ELSE [op |-> l.op]

InitTransfer ==
    /\ \E kp \in Gains_kp, ki \in Gains_ki \ {0}, kd \in Gains_kd,
          TfTs \in Ratios_TfTs, lim \in {l \in Limits : l[1] <= l[2]},
          u0 \in Biases_u0, b \in Weights_b :
          /\ args = [kp |-> kp, ki |-> ki, kd |-> kd, TfTs |-> TfTs,
                     umin |-> lim[1], umax |-> lim[2], u0 |-> u0, b |-> b]
          /\ pid = NewController(kp, ki, kd, TfTs, lim[1], lim[2], u0, b)
    /\ last = Idle
    /\ ticks = 0
    /\ other = Remembered(Idle, pid)
    /\ mf = NoFilter

\* u = controller(...): the whole call.
StepTransfer ==
    /\ last.op = "idle"
    /\ ticks < MaxTicks
    /\ \E in \in TransferInputs :
          \E res \in {PIDStep(pid, in)} :
              /\ pid' = res.pid
              /\ last' = [op |-> "step", in |-> in, u |-> res.u,
                          Dui |-> res.Dui, mid |-> res.mid, pre |-> pid]
    /\ ticks' = ticks + 1
    /\ UNCHANGED <<args, other, mf>>

\* controller.reset(): the whole call.
ResetTransfer ==
    /\ last.op = "idle"
    /\ ticks > 0
    /\ pid' = PIDReset(pid)
    /\ last' = [Idle EXCEPT !.op = "reset", !.pre = pid]
    /\ UNCHANGED <<args, ticks, other, mf>>

\* The caller goes on to its next call and remembers the one that returned.
ContinueTransfer ==
    /\ last.op # "idle"
    /\ last' = Idle
    /\ other' = Remembered(last, pid)
    /\ UNCHANGED <<args, pid, ticks, mf>>

NextTransfer == StepTransfer \/ ResetTransfer \/ ContinueTransfer

SpecTransfer == InitTransfer /\ [][NextTransfer]_vars

----------------------------------------------------------------------------
(* State machine: one controller without integral action (P or PD) *)

\* Constructor arguments: ki = 0; the P-only controller of TEST_CASE P_step
\* (kp = 1, kd = 0, default u0) is among them.
PD_kp == {Scale, 2 * Scale}

PD_kd == {0, Scale}

PD_u0 == {Default_u0, Scale}

PD_Limits == {<<-Scale, Scale>>, <<-10 * Scale, 10 * Scale>>}

\* Arguments of a call: a valid Tx, any windup.
PD_r == {0, Scale}

PD_uman == {2 * Scale}

PDInputs ==
    [r : PD_r, y : In_y, uff : In_uff, uman : PD_uman,
     utrack : Transfer_utrack, Tx : {t \in In_Tx : t > 0},
     track : BOOLEAN, auto : BOOLEAN, windup : In_windup]

InitPD ==
    /\ \E kp \in PD_kp, kd \in PD_kd, TfTs \in Ratios_TfTs,
          lim \in PD_Limits, u0 \in PD_u0, b \in Weights_b :
          /\ args = [kp |-> kp, ki |-> 0, kd |-> kd, TfTs |-> TfTs,
                     umin |-> lim[1], umax |-> lim[2], u0 |-> u0, b |-> b]
          /\ pid = NewController(kp, 0, kd, TfTs, lim[1], lim[2], u0, b)
    /\ last = Idle
    /\ ticks = 0
    /\ other = Single
    /\ mf = NoFilter

\* u = controller(...): the whole call.
StepPD ==
    /\ last.op = "idle"
    /\ ticks < MaxTicks
    /\ \E in \in PDInputs :
          \E res \in {PIDStep(pid, in)} :
              /\ pid' = res.pid
              /\ last' = [op |-> "step", in |-> in, u |-> res.u,
                          Dui |-> res.Dui, mid |-> res.mid, pre |-> pid]
    /\ ticks' = ticks + 1
    /\ UNCHANGED <<args, other, mf>>

NextPD == StepPD \/ Reset \/ Continue

SpecPD == InitPD /\ [][NextPD]_vars

----------------------------------------------------------------------------
(* State machine: a caller that, when it resets its controller, constructs  *)
(* a second one with the same arguments and from then on gives both the     *)
(* same calls                                                               *)

\* Arguments of a call: a valid Tx, windup off or on both sides.
RebornInputs ==
    [r : In_r, y : In_y, uff : In_uff, uman : In_uman, utrack : In_utrack,
     Tx : {t \in In_Tx : t > 0}, track : BOOLEAN, auto : BOOLEAN,
     windup : {NONE, BOTH}]

\* A controller newly constructed with the arguments a.
Fresh(a) ==
    NewController(a.kp, a.ki, a.kd, a.TfTs, a.umin, a.umax, a.u0, a.b)

InitReborn ==
    /\ \E kp \in Gains_kp, ki \in Gains_ki, kd \in Gains_kd,
          TfTs \in Ratios_TfTs, lim \in {l \in Limits : l[1] <= l[2]},
          u0 \in Biases_u0, b \in Weights_b :
          /\ args = [kp |-> kp, ki |-> ki, kd |-> kd, TfTs |-> TfTs,
                     umin |-> lim[1], umax |-> lim[2], u0 |-> u0, b |-> b]
          /\ pid = NewController(kp, ki, kd, TfTs, lim[1], lim[2], u0, b)
    /\ last = Idle
    /\ ticks = 0
    /\ other = Single
    /\ mf = NoFilter

\* A call of operator() on the controller and, once the second controller
\* exists, the same call on it.
StepReborn ==
    /\ last.op = "idle"
    /\ ticks < MaxTicks
    /\ \E in \in RebornInputs :
          \E res \in {PIDStep(pid, in)},
             res2 \in {IF other = Single THEN Single
                       ELSE PIDStep(other.pid, in)} :
              /\ pid' = res.pid
              /\ last' = [op |-> "step", in |-> in, u |-> res.u,
                          Dui |-> res.Dui, mid |-> res.mid, pre |-> pid]
              /\ other' = IF other = Single THEN Single
                          ELSE [pid |-> res2.pid, u |-> res2.u,
                                pre |-> other.pid]
    /\ ticks' = ticks + 1
    /\ UNCHANGED <<args, mf>>

\* controller.reset(), and the construction of a (new) second controller;
\* ticks counts the calls of operator() since.
ResetAndConstruct ==
    /\ last.op = "idle"
    /\ ticks > 0
    /\ pid' = PIDReset(pid)
    /\ last' = [Idle EXCEPT !.op = "reset", !.pre = pid]
    /\ other' = [pid |-> Fresh(args), u |-> 0, pre |-> <<>>]
    /\ ticks' = 0
    /\ UNCHANGED <<args, mf>>

\* The caller goes on to its next call.
ContinueReborn ==
    /\ last.op # "idle"
    /\ last' = Idle
    /\ other' = IF other = Single THEN Single
                ELSE [other EXCEPT !.u = 0, !.pre = <<>>]
    /\ UNCHANGED <<args, pid, ticks, mf>>

NextReborn == StepReborn \/ ResetAndConstruct \/ ContinueReborn

SpecReborn == InitReborn /\ [][NextReborn]_vars

----------------------------------------------------------------------------
(* Properties *)

\* The mathematical clamp of x to [lo, hi], for lo <= hi.
Clamp(x, lo, hi) == IF x < lo THEN lo ELSE IF x > hi THEN hi ELSE x

\* A call of operator() has just returned.
Stepped == last.op = "step"

\* The windup argument is one of the four enumerators.
ValidWindup(w) == w \in {NONE, UPPER, LOWER, BOTH}

\* A call of operator() within its preconditions has just returned, on a
\* controller constructed within its own: Tx > 0, windup an enumerator,
\* umin <= umax.
ValidTick ==
    /\ Stepped /\ last.in.Tx > 0 /\ ValidWindup(last.in.windup)
    /\ args.umin <= args.umax

\* The call before the one that returned, if there was one, had Tx > 0.
ValidBefore == last.pre.filter.initialized => last.pre.filter.Tx_old > 0

\* This tick's filter outputs, as returned to operator() by filter_(y, Tx).
Lyf == last.mid.filter.yf

Ldyf == last.mid.filter.dyf

\* C1: a controller constructed with umin <= umax returns, from every call of
\* operator() with Tx > 0, after any earlier calls, a value u with
\* umin <= u <= umax.
C1_Saturation ==
    (Stepped /\ args.umin <= args.umax /\ last.in.Tx > 0)
        => (args.umin <= last.u /\ last.u <= args.umax)

\* C1 witness: a later automatic tick whose unsaturated sum lies below umin
\* returns umin.
C1_Witness ==
    /\ ValidTick /\ ValidBefore /\ ticks = MaxTicks
    /\ last.in.auto
    /\ Signal(last.mid, last.in) < args.umin
    /\ last.u = args.umin

\* C2: a tick with auto = false returns clamp(uman, umin, umax), whatever the
\* other arguments, the gains and the controller's prior state are (umin <=
\* umax, for which the clamp is defined).
C2_ManualPassthrough ==
    (Stepped /\ ~last.in.auto /\ args.umin <= args.umax)
        => last.u = Clamp(last.in.uman, args.umin, args.umax)

\* C2 witness: a manual tick with track = true and ki = 0 on a controller
\* whose previous output differs from the value returned.
C2_Witness ==
    /\ ValidTick /\ ValidBefore /\ ticks = MaxTicks /\ ~last.in.auto
    /\ last.in.track /\ pid.ki = 0
    /\ last.in.utrack # last.in.uman
    /\ last.pre.u_old # last.u
    /\ last.u = last.in.uman

\* C3: a call with Tx <= 0, or on a filter with TfTs <= 0, ends in an error
\* outcome, returns no number and leaves controller and filter as they were.
C3_DomainErrorRejected ==
    (last.op \notin {"idle", "reset"}
        /\ (last.in.Tx <= 0 \/ pid.filter.TfTs <= 0))
        => (last.op = "error" /\ pid = last.pre)

\* C4: no controller constructed with umin > umax ever executes operator().
C4_ConfigErrorRejected == Stepped => args.umin <= args.umax

\* C5: a call whose windup is none of NONE, UPPER, LOWER, BOTH ends in an
\* error outcome; it never returns as a call with windup = NONE would.
C5_InvalidWindupRejected ==
    (last.op \notin {"idle", "reset"} /\ ~ValidWindup(last.in.windup))
        => last.op = "error"

\* C6: anti_windup leaves Dui unchanged under NONE, returns max(Dui, 0) under
\* LOWER, min(Dui, 0) under UPPER and 0 under BOTH.
C6_AntiWindupRule ==
    (Stepped /\ last.in.auto /\ ValidWindup(last.in.windup)) =>
        LET raw == RawDui(last.mid, last.in.r, Lyf, last.in.Tx)
            w   == last.in.windup
        IN  /\ w = NONE  => last.Dui = raw
            /\ w = LOWER => last.Dui = (IF raw > 0 THEN raw ELSE 0)
            /\ w = UPPER => last.Dui = (IF raw < 0 THEN raw ELSE 0)
            /\ w = BOTH  => last.Dui = 0
            /\ w \in {LOWER, BOTH} => last.Dui >= 0
            /\ w \in {UPPER, BOTH} => last.Dui <= 0

\* C6 witness: a negative increment is cut to 0 under LOWER.
C6_Witness ==
    /\ ValidTick /\ last.in.auto /\ last.in.windup = LOWER
    /\ RawDui(last.mid, last.in.r, Lyf, last.in.Tx) < 0
    /\ last.Dui = 0

\* C7: two controllers constructed with ki == 0 and the same arguments but
\* for b, given the same calls, return the same u on every tick.
C7_WeightIrrelevant == Stepped => last.u = other.u

\* C7 witness: an automatic tick that is not saturated, after a manual tick
\* that left the two controllers with different up_old and different b.
C7_Witness ==
    /\ ValidTick /\ ValidBefore /\ last.in.auto /\ ~last.in.track
    /\ args.b # other.args.b
    /\ last.pre.b # other.pre.b
    /\ last.pre.up_old # other.pre.up_old
    /\ args.umin < last.u /\ last.u < args.umax
    /\ last.u = other.u

\* The setpoint weight in effect on a tick: 1 if ki == 0, else the b given to
\* the constructor.
EffectiveB == IF args.ki = 0 THEN Scale ELSE args.b

\* The four increments of a tick taken from zeroed previous terms.
FreshDup == Mul(args.kp, Mul(EffectiveB, last.in.r) - Lyf)

FreshDui ==
    anti_windup(Mul(Mul(args.ki, last.in.r - Lyf), last.in.Tx), last.in.windup)

FreshDud == Div(Mul(-args.kd, Ldyf), last.in.Tx)

FreshDuff == last.in.uff

\* C8 as stated: with ki == 0, on every tick, whatever auto is, up_old, ud_old
\* and uff_old are 0 and b is 1 when the output is computed, and b stays 1
\* (stated here for the ticks within their preconditions only).
C8_ResetEveryTick ==
    /\ (ValidTick /\ args.ki = 0)
          => /\ last.mid.up_old = 0 /\ last.mid.ud_old = 0
             /\ last.mid.uff_old = 0 /\ last.mid.b = Scale
    /\ (last.op \in {"step", "reset"} /\ args.ki = 0 /\ last.pre.b = Scale)
          => pid.b = Scale

\* C8 amended: with ki == 0, on every tick with auto = true, up_old, ud_old
\* and uff_old are 0 and b is 1 when the output is computed; once b is 1 it
\* stays 1 over every later call (manual ticks and reset() included).  A
\* manual tick leaves all four as the previous call left them.
C8_ResetEveryAutoTick ==
    /\ (Stepped /\ args.ki = 0 /\ last.in.auto)
          => /\ last.mid.up_old = 0 /\ last.mid.ud_old = 0
             /\ last.mid.uff_old = 0 /\ last.mid.b = Scale
             /\ pid.b = Scale
    /\ (last.op \in {"step", "reset"} /\ args.ki = 0 /\ last.pre.b = Scale)
          => pid.b = Scale
    /\ (Stepped /\ args.ki = 0 /\ ~last.in.auto)
          => /\ last.mid.up_old = last.pre.up_old
             /\ last.mid.ud_old = last.pre.ud_old
             /\ last.mid.uff_old = last.pre.uff_old
             /\ last.mid.b = last.pre.b

\* C8 witness: an automatic, non-tracking tick with ki == 0 on a controller
\* whose previous tick was manual: the terms were non-zero and b was not 1.
C8_Witness ==
    /\ ValidTick /\ ValidBefore /\ args.ki = 0 /\ last.in.auto /\ ~last.in.track
    /\ last.pre.up_old # 0 /\ last.pre.ud_old # 0 /\ last.pre.uff_old # 0
    /\ last.pre.b # Scale
    /\ last.mid.up_old = 0 /\ last.mid.b = Scale

\* The value C9 states for a tick with auto = true and track = true.
TrackingValue ==
    Clamp(last.in.utrack + FreshDup + FreshDui + FreshDud + FreshDuff,
          args.umin, args.umax)

\* C9 as stated: a tick with auto = true and track = true returns
\* clamp(utrack + Dup + Dui + Dud + Duff) with the increments taken from
\* zeroed previous terms, and it returns utrack only when all four are zero.
C9_TrackingOnlyWhenZero ==
    (ValidTick /\ last.in.auto /\ last.in.track)
        => /\ last.u = TrackingValue
           /\ last.u = last.in.utrack
                 => /\ FreshDup = 0 /\ FreshDui = 0
                    /\ FreshDud = 0 /\ FreshDuff = 0

\* C9 amended: a tick with auto = true and track = true returns
\* clamp(utrack + Dup + Dui + Dud + Duff) with the increments taken from
\* zeroed previous terms, whatever the prior state and ki are; it returns
\* utrack whenever the increments sum to zero and umin <= utrack <= umax
\* (and also when saturation cuts the sum back to utrack).
C9_Tracking ==
    (Stepped /\ last.in.auto /\ last.in.track /\ args.umin <= args.umax)
        => /\ last.u = TrackingValue
           /\ (FreshDup + FreshDui + FreshDud + FreshDuff = 0
                 /\ args.umin <= last.in.utrack /\ last.in.utrack <= args.umax)
                 => last.u = last.in.utrack

\* C9 witness: a tracking tick with ki == 0 and u0 # utrack, on a controller
\* with non-zero previous terms, whose result is not saturated.
C9_Witness ==
    /\ ValidTick /\ ValidBefore /\ last.in.auto /\ last.in.track /\ args.ki = 0
    /\ args.u0 # last.in.utrack
    /\ last.pre.up_old # 0 /\ last.pre.ud_old # 0 /\ last.pre.uff_old # 0
    /\ args.umin < last.u /\ last.u < args.umax
    /\ last.u # last.in.utrack

\* The members that no call changes.
FixedConfig ==
    /\ pid.kp = args.kp /\ pid.ki = args.ki /\ pid.kd = args.kd
    /\ pid.filter.TfTs = args.TfTs
    /\ pid.umin = args.umin /\ pid.umax = args.umax /\ pid.u0 = args.u0

\* C10 as stated: after any calls, kp, ki, kd, TfTs, umin, umax, u0 and b hold
\* the values passed to the constructor (stated here for the calls within
\* their preconditions only).
C10_ConfigImmutable == ValidTick => (FixedConfig /\ pid.b = args.b)

\* C10 amended: after any calls, kp, ki, kd, TfTs, umin, umax and u0 hold the
\* values passed to the constructor; b holds its constructor value until the
\* first tick with auto = true on a controller with ki == 0, which sets it to
\* 1, and no other call changes it.
C10_ConfigImmutableButB ==
    /\ FixedConfig
    /\ args.ki # 0 => pid.b = args.b
    /\ pid.b \in {args.b, Scale}
    /\ (Stepped /\ args.ki = 0 /\ last.in.auto) => pid.b = Scale
    /\ (Stepped /\ ~(args.ki = 0 /\ last.in.auto)) => pid.b = last.pre.b
    /\ last.op = "reset" => pid.b = last.pre.b

\* C10 witness: reset() after an automatic tick that overrode b.
C10_Witness ==
    /\ last.op = "reset" /\ ticks = MaxTicks
    /\ args.b # Scale /\ pid.b = Scale
    /\ pid.u0 = args.u0 /\ args.u0 # 0

\* A call of MeasurementFilter::operator() has just returned.
Applied == last.op = "apply"

\* The six cached coefficients of a filter.
Coefficients(f) ==
    [a11 |-> f.a11, a12 |-> f.a12, a21 |-> f.a21, a22 |-> f.a22,
     b1 |-> f.b1, b2 |-> f.b2]

\* C12: after every call filter(y, Tx) with Tx > 0, following any calls and
\* resets, initialized is true, Tx_old is this call's Tx, the cached
\* coefficients and those the state update used are zoh_Fy(TfTs, Tx); zoh_Fy
\* was called exactly if the filter was uninitialized or its Tx_old was not
\* this Tx, and the coefficients are as before where it was not called.
C12_CoefficientCache ==
    (Applied /\ last.in.Tx > 0) =>
        LET p   == zoh_Fy(args.TfTs, last.in.Tx)
            old == last.pre
        IN  /\ mf.initialized
            /\ mf.Tx_old = last.in.Tx
            /\ Coefficients(mf) = p
            /\ mf.yf = Mul(p.a11, old.yf) + Mul(p.a12, old.dyf)
                           + Mul(p.b1, last.in.y)
            /\ mf.dyf = Mul(p.a21, old.yf) + Mul(p.a22, old.dyf)
                           + Mul(p.b2, last.in.y)
            /\ last.zoh <=> (\/ ~old.initialized
                             \/ old.Tx_old = NaN
                             \/ old.Tx_old # last.in.Tx)
            /\ ~last.zoh => Coefficients(mf) = Coefficients(old)

\* C12 witness: a call whose Tx > 0 is not the Tx > 0 of the call before it
\* replaces the cached coefficients.
C12_Witness ==
    /\ Applied /\ last.in.Tx > 0
    /\ last.pre.initialized /\ last.pre.Tx_old > 0
    /\ last.pre.Tx_old # last.in.Tx
    /\ last.zoh
    /\ Coefficients(mf) # Coefficients(last.pre)
    /\ Coefficients(mf) = zoh_Fy(args.TfTs, last.in.Tx)

\* C13: reset() sets yf and dyf to 0, clears initialized and sets Tx_old to
\* the unset value; the call that follows a reset goes through zoh_Fy and
\* ends with the coefficients of its own Tx, also when the coefficients left
\* in the cache were those of that same Tx.
C13_FilterReset ==
    /\ last.op = "reset"
          => /\ mf.yf = 0 /\ mf.dyf = 0
             /\ ~mf.initialized
             /\ mf.Tx_old = NaN
             /\ \A Tx \in Filter_Tx : NeedsDiscretization(mf, Tx)
    /\ (Applied /\ ~last.pre.initialized)
          => /\ last.zoh
             /\ Coefficients(mf) = zoh_Fy(args.TfTs, last.in.Tx)

\* C13 witness: a call that follows a reset and is given the Tx of the last
\* call before the reset, whose coefficients are still in the cache.
C13_Witness ==
    /\ Applied /\ last.in.Tx > 0
    /\ ~last.pre.initialized /\ last.pre.Tx_old = NaN
    /\ last.pre.yf = 0 /\ last.pre.dyf = 0
    /\ Coefficients(last.pre) = zoh_Fy(args.TfTs, last.in.Tx)
    /\ last.zoh

\* C14: reset() on a controller in any state sets u_old, up_old, ud_old and
\* uff_old to 0 and resets the filter: yf = dyf = 0, not initialized, Tx_old
\* unset.
C14_ControllerReset ==
    last.op = "reset"
        => /\ pid.u_old = 0 /\ pid.up_old = 0
           /\ pid.ud_old = 0 /\ pid.uff_old = 0
           /\ pid.filter.yf = 0 /\ pid.filter.dyf = 0
           /\ ~pid.filter.initialized
           /\ pid.filter.Tx_old = NaN

\* C14 witness: reset() on a controller after two ticks, with all four terms
\* and both filter states non-zero before it.
C14_Witness ==
    /\ last.op = "reset" /\ ticks = MaxTicks /\ ValidBefore
    /\ last.pre.u_old # 0 /\ last.pre.up_old # 0
    /\ last.pre.ud_old # 0 /\ last.pre.uff_old # 0
    /\ last.pre.filter.yf # 0 /\ last.pre.filter.dyf # 0
    /\ last.pre.filter.initialized
    /\ pid.u_old = 0 /\ pid.filter.yf = 0

\* x millionths as a number of the model.
Millionths(x) ==
    Sgn(x) * (RoundDiv((Abs(x) \div 1000) * Scale, 1000)
                + RoundDiv((Abs(x) % 1000) * Scale, 1000000))

\* a is x millionths to within two units of the model's resolution.
Near(a, x) == Abs(a - Millionths(x)) <= 2

\* C15: the coefficients a call of zoh_Fy(TfTs, Tx) left in the filter are
\* a11 = h2 + h3, a12 = h2, a21 = -h4, a22 = h2 - h3, b1 = 1 - h2 - h3,
\* b2 = h4 with h1 = Tx/TfTs, h2 = exp(-h1), h3 = h1*h2, h4 = h3/TfTs, so
\* a11 + b1 = 1 and a21 = -b2; for TfTs = 10 and Tx = 1 they are 0.995321,
\* 0.904837, -0.00904837, 0.814354, 0.004679 and 0.00904837 to the model's
\* resolution.
C15_Discretizer ==
    (Applied /\ last.zoh) =>
        LET h1 == Div(last.in.Tx, args.TfTs)
            h2 == Exp(-h1)
            h3 == Mul(h1, h2)
            h4 == Div(h3, args.TfTs)
        IN  /\ mf.a11 = h2 + h3 /\ mf.a12 = h2
            /\ mf.a21 = -h4 /\ mf.a22 = h2 - h3
            /\ mf.b1 = Scale - h2 - h3 /\ mf.b2 = h4
            /\ mf.a11 + mf.b1 = Scale
            /\ mf.a21 = -mf.b2
            /\ (args.TfTs = 10 * Scale /\ last.in.Tx = Scale)
                  => /\ Near(mf.a11, 995321) /\ Near(mf.a12, 904837)
                     /\ Near(mf.a21, -9048) /\ Near(mf.a22, 814354)
                     /\ Near(mf.b1, 4679) /\ Near(mf.b2, 9048)

\* C15 witness: a call with Tx = 1 on a filter with TfTs = 10, after a call
\* with another Tx.
C15_Witness ==
    /\ Applied /\ last.zoh
    /\ args.TfTs = 10 * Scale /\ last.in.Tx = Scale
    /\ last.pre.initialized /\ last.pre.Tx_old # Scale
    /\ mf.a12 > mf.a22 /\ mf.a22 > 0 /\ mf.b1 > 0 /\ mf.b2 > 0

\* C16: on every row of every sequence of rows, the fresh controller of
\* test_pid_with_io_data (TfTs = 10, default u0 and b, no windup argument)
\* returns the u that the reference algorithm produces for that row after
\* the same earlier rows.
C16_ReplayFidelity == Stepped => last.u = other.u

\* C16 witness: an automatic row after a manual row with another Tx, whose
\* u is not saturated and is not the u of the row before.
C16_Witness ==
    /\ Stepped /\ ticks = MaxTicks
    /\ last.in.auto /\ ~last.in.track
    /\ last.pre.filter.initialized /\ last.pre.filter.Tx_old # last.in.Tx
    /\ last.pre.up_old # 0 /\ last.pre.ud_old # 0
    /\ args.umin < last.u /\ last.u < args.umax
    /\ last.u # last.pre.u_old
    /\ last.u = other.u

\* C18: after every call of operator(), whatever auto_mode and track are,
\* u_old is the u returned (within [umin, umax] where umin <= umax),
\* up_old = kp*(b*r - yf) with the controller's b, ud_old = -kd*dyf and
\* uff_old = uff, where yf and dyf are the filter's states after exactly one
\* update by this call's y and Tx.
C18_TermStateUpdate ==
    Stepped =>
        LET f == pid.filter
            o == last.pre.filter
        IN  /\ pid.u_old = last.u
            /\ args.umin <= args.umax
                  => (args.umin <= pid.u_old /\ pid.u_old <= args.umax)
            /\ pid.up_old = Mul(args.kp, Mul(pid.b, last.in.r) - f.yf)
            /\ pid.ud_old = Mul(-args.kd, f.dyf)
            /\ pid.uff_old = last.in.uff
            /\ f.Tx_old = last.in.Tx
            /\ f.yf = Mul(f.a11, o.yf) + Mul(f.a12, o.dyf)
                          + Mul(f.b1, last.in.y)
            /\ f.dyf = Mul(f.a21, o.yf) + Mul(f.a22, o.dyf)
                          + Mul(f.b2, last.in.y)

\* C18 witness: a manual tick in tracking mode that changes all four terms
\* and both filter states.
C18_Witness ==
    /\ ValidTick /\ ValidBefore /\ ticks = MaxTicks
    /\ ~last.in.auto /\ last.in.track
    /\ pid.u_old # last.pre.u_old /\ pid.up_old # last.pre.up_old
    /\ pid.ud_old # last.pre.ud_old /\ pid.uff_old # last.pre.uff_old
    /\ pid.filter.yf # last.pre.filter.yf
    /\ pid.filter.dyf # last.pre.filter.dyf
    /\ pid.u_old = last.in.uman

\* The anti-windup rule applied to an integral increment.
Limited(Dui, w) ==
    IF w = BOTH THEN 0
    ELSE IF w = LOWER THEN (IF Dui > 0 THEN Dui ELSE 0)
    ELSE IF w = UPPER THEN (IF Dui < 0 THEN Dui ELSE 0)
    ELSE Dui

\* The proportional and derivative terms of the remembered tick (1) and of
\* the tick that has just returned (2), and the latter's integral increment.
P1 == Mul(args.kp, Mul(args.b, other.r) - other.yf)

P2 == Mul(args.kp, Mul(args.b, last.in.r) - pid.filter.yf)

D1 == Mul(-args.kd, other.dyf)

D2 == Mul(-args.kd, pid.filter.dyf)

I2 ==
    Limited(Mul(Mul(args.ki, last.in.r - pid.filter.yf), last.in.Tx),
            last.in.windup)

\* A tick with auto = true and track = false has just returned, and the call
\* before it was a tick with auto = false.
Transferred ==
    /\ ValidTick /\ last.in.auto /\ ~last.in.track
    /\ other.op = "step" /\ ~other.auto

\* C19: a tick with auto = true, track = false and ki # 0 that immediately
\* follows a manual tick returns
\* clamp(u1 + (P2 - P1) + anti_windup(ki*(r2 - yf2)*Tx2, windup)
\*       + (D2 - D1)/Tx2 + (uff2 - uff1), umin, umax),
\* u1 being the manual tick's saturated output; it returns u1 when P, D and
\* uff are unchanged and the integral increment is 0.
C19_BumplessTransfer ==
    (Transferred /\ args.ki # 0) =>
        /\ last.u = Clamp(other.u + (P2 - P1) + I2 + Div(D2 - D1, last.in.Tx)
                              + (last.in.uff - other.uff),
                          args.umin, args.umax)
        /\ (P2 = P1 /\ D2 = D1 /\ last.in.uff = other.uff /\ I2 = 0)
              => last.u = other.u

\* C19 witness: an automatic tick after a manual tick, with P, D and uff
\* unchanged and the integral increment cut to 0, returns the manual output,
\* which is not 0.
C19_Witness ==
    /\ Transferred /\ args.ki # 0
    /\ P2 = P1 /\ D2 = D1 /\ last.in.uff = other.uff /\ I2 = 0
    /\ last.in.windup # BOTH
    /\ P1 # 0 /\ other.u # 0
    /\ last.u = other.u

\* C19 second witness: an automatic tick after a manual tick whose terms all
\* changed and whose result is not saturated.
C19_WitnessMoved ==
    /\ Transferred /\ args.ki # 0
    /\ P2 # P1 /\ D2 # D1 /\ last.in.uff # other.uff /\ I2 # 0
    /\ args.umin < last.u /\ last.u < args.umax
    /\ last.u # other.u

\* C20: every tick with ki == 0, auto = true and track = false returns
\* clamp(u0 + kp*(r - yf) + (-kd*dyf)/Tx + uff, umin, umax), whatever u_old,
\* up_old, ud_old, uff_old and windup are; the first tick of a fresh
\* controller has yf = b1*y and dyf = b2*y, so that with kp = 1, kd = 0,
\* u0 = 0, uff = 0 and r = 0 it returns clamp(-b1*y, umin, umax).
C20_MemorylessPD ==
    LET f == pid.filter
        plain == Stepped /\ args.ki = 0 /\ last.in.auto /\ ~last.in.track
    IN  /\ plain =>
              last.u = Clamp(args.u0 + Mul(args.kp, last.in.r - f.yf)
                                 + Div(Mul(-args.kd, f.dyf), last.in.Tx)
                                 + last.in.uff,
                             args.umin, args.umax)
        /\ (Stepped /\ ticks = 1) =>
              /\ f.yf = Mul(zoh_Fy(args.TfTs, last.in.Tx).b1, last.in.y)
              /\ f.dyf = Mul(zoh_Fy(args.TfTs, last.in.Tx).b2, last.in.y)
        /\ (plain /\ ticks = 1 /\ args.kp = Scale /\ args.kd = 0
              /\ args.u0 = 0 /\ last.in.uff = 0 /\ last.in.r = 0) =>
              last.u = Clamp(-Mul(f.b1, last.in.y), args.umin, args.umax)

\* C20 witness: a second tick with ki == 0, auto = true and track = false
\* on a controller whose u_old is not u0 and whose other terms are not 0,
\* with windup = BOTH; its result is not saturated.
C20_Witness ==
    /\ Stepped /\ ticks = MaxTicks
    /\ args.ki = 0 /\ last.in.auto /\ ~last.in.track
    /\ last.in.windup = BOTH
    /\ last.pre.u_old # args.u0 /\ last.pre.up_old # 0
    /\ last.pre.ud_old # 0 /\ last.pre.uff_old # 0
    /\ args.umin < last.u /\ last.u < args.umax
    /\ last.u = args.u0 + Mul(args.kp, last.in.r - pid.filter.yf)
                    + Div(Mul(-args.kd, pid.filter.dyf), last.in.Tx)
                    + last.in.uff

\* C20 second witness: the first tick of the P-only controller with r = 0
\* returns -b1*y, which is not 0.
C20_WitnessFirstTick ==
    /\ Stepped /\ ticks = 1
    /\ args.ki = 0 /\ last.in.auto /\ ~last.in.track
    /\ args.kp = Scale /\ args.kd = 0 /\ args.u0 = 0
    /\ last.in.uff = 0 /\ last.in.r = 0
    /\ last.u = -Mul(pid.filter.b1, last.in.y)
    /\ last.u < 0

\* C21: every call filter(y, Tx) computes yf_new = a11*yf_prev + a12*dyf_prev
\* + b1*y and dyf_new = a21*yf_prev + a22*dyf_prev + b2*y, both from the
\* filter's state before the call, stores the two and returns exactly them.
C21_SimultaneousUpdate ==
    Applied =>
        LET yf_prev  == last.pre.yf
            dyf_prev == last.pre.dyf
            yf_new   == Mul(mf.a11, yf_prev) + Mul(mf.a12, dyf_prev)
                            + Mul(mf.b1, last.in.y)
            dyf_new  == Mul(mf.a21, yf_prev) + Mul(mf.a22, dyf_prev)
                            + Mul(mf.b2, last.in.y)
        IN  /\ mf.yf = yf_new
            /\ mf.dyf = dyf_new
            /\ last.out = [yf |-> yf_new, dyf |-> dyf_new]

\* C21 witness: a call with Tx > 0 on a filter with non-zero state, for which
\* the dyf equation would give another value if it read the new yf.
C21_Witness ==
    /\ Applied /\ last.in.Tx > 0
    /\ last.pre.initialized /\ last.pre.Tx_old > 0
    /\ last.pre.yf # 0 /\ last.pre.dyf # 0
    /\ Mul(mf.a21, mf.yf) # Mul(mf.a21, last.pre.yf)
    /\ mf.dyf = Mul(mf.a21, last.pre.yf) + Mul(mf.a22, last.pre.dyf)
                    + Mul(mf.b2, last.in.y)

\* C22: after reset() in any state, the controller returns on every later
\* call the u that a controller newly constructed with the same arguments
\* returns on the same calls.
C22_ResetAsFresh == (Stepped /\ other # Single) => last.u = other.u

\* C22 witness: the second call after a reset that followed a tick with
\* ki == 0 which set b to 1: the reset controller and the new one differ in
\* b and in up_old before the call, and return the same unsaturated u.
C22_Witness ==
    /\ Stepped /\ other # Single /\ ticks = MaxTicks
    /\ args.ki = 0 /\ last.in.auto /\ ~last.in.track
    /\ last.pre.b # other.pre.b
    /\ last.pre.up_old # other.pre.up_old
    /\ args.umin < last.u /\ last.u < args.umax
    /\ last.u = other.u

\* C22 second witness: with ki # 0, the first call after a reset is given
\* the Tx whose coefficients the reset left in the cache, after ticks with
\* another Tx; the new controller's cache was empty.
C22_WitnessStaleCache ==
    /\ Stepped /\ other # Single /\ ticks = 1
    /\ args.ki # 0 /\ last.in.auto /\ ~last.in.track
    /\ ~last.pre.filter.initialized
    /\ Coefficients(last.pre.filter) # Coefficients(other.pre.filter)
    /\ Coefficients(last.pre.filter) # zoh_Fy(args.TfTs, last.in.Tx)
    /\ args.umin < last.u /\ last.u < args.umax
    /\ last.u = other.u

\* The total increment Du of the tick that has just returned, from the terms
\* of the remembered tick before it.
Du2 ==
    (P2 - P1) + I2 + Div(D2 - D1, last.in.Tx) + (last.in.uff - other.uff)

\* A tick with auto = true and track = false has just returned on a
\* controller with ki # 0, and the call before it was a tick.
Incremented ==
    /\ ValidTick /\ last.in.auto /\ ~last.in.track /\ args.ki # 0
    /\ other.op = "step"

\* C23: with ki # 0, a tick with auto = true and track = false returns
\* clamp(u_prev + Du, umin, umax), u_prev being the saturated u the tick
\* before returned; so, for umin < umax, a tick with Du < 0 after a tick that
\* returned umax returns max(umax + Du, umin) < umax, and a tick with Du > 0
\* after a tick that returned umin returns min(umin + Du, umax) > umin,
\* whatever windup is.
C23_NoWindupMemory ==
    Incremented =>
        /\ last.u = Clamp(other.u + Du2, args.umin, args.umax)
        /\ (args.umin < args.umax /\ other.u = args.umax /\ Du2 < 0)
              => /\ last.u = Max(args.umax + Du2, args.umin)
                 /\ last.u < args.umax
        /\ (args.umin < args.umax /\ other.u = args.umin /\ Du2 > 0)
              => /\ last.u = Min(args.umin + Du2, args.umax)
                 /\ last.u > args.umin

\* C23 witness: with windup = NONE, an automatic tick returned umax, and the
\* automatic tick after it, with Du < 0, returns umax + Du, which is above
\* umin.
C23_Witness ==
    /\ Incremented /\ last.in.windup = NONE
    /\ other.auto /\ other.u = args.umax
    /\ last.pre.u_old = args.umax
    /\ Du2 < 0
    /\ last.u = args.umax + Du2
    /\ args.umin < last.u /\ last.u < args.umax

====
